---------------------------- MODULE Spec2Model ----------------------------
(***************************************************************************)
(* Model of the Kaa C client's log collector (kaa_logging.c): collector    *)
(* life cycle, record ingestion, upload decision, batch serialization and  *)
(* server acknowledgment handling.                                         *)
(*                                                                         *)
(* The log storage backend, the upload decision function, the durable      *)
(* status store and the platform message writer are collaborators whose    *)
(* code is not in kaa_logging.c; they are modelled from their contracts.   *)
(***************************************************************************)
EXTENDS Integers, Sequences, FiniteSets, TLC

VARIABLES
    status_log_bucket_id,   \* kaa_status_t: the durable bucket id counter
    little_endian,          \* byte order of the host the client is built for
    env,                    \* the environment the client runs in
    collector,              \* struct kaa_log_collector, or NULL
    backends,               \* the kaa_log_storage_t instances handed to kaa_logging_init
    issued,                 \* history: bucket ids that passed the id step, per collector
    ncollectors,            \* history: number of collectors created so far
    nrecords,               \* history: number of records accepted so far
    sent,                   \* the batches handed to the transport, not yet answered
    delivered,              \* history: records of the batches the server accepted
    crashed,                \* the process was terminated by an out-of-bounds store
    last                    \* observation of the most recent API call

vars == <<status_log_bucket_id, little_endian, env, collector, backends, issued,
          ncollectors, nrecords, sent, delivered, crashed, last>>

---------------------------------------------------------------------------
(* Bounds of the model *)

MaxRecords == 3
MaxRequests == 2

---------------------------------------------------------------------------
(* Program constants *)

KAA_LOGGING_RECEIVE_UPDATES_FLAG == 1
KAA_MAX_PADDING_LENGTH == 3
LOGGING_RESULT_SUCCESS == 0
LOGGING_RESULT_FAILURE == 1
\* uint16_t log_bucket_id: arithmetic modulo 2^16
UINT16_MOD == 65536
\* sizeof(uint32_t), sizeof(uint16_t)
SIZEOF_UINT32 == 4
SIZEOF_UINT16 == 2
\* ssize_t remaining_size is converted to size_t when handed to get_record.
\* size_t is 64 bits wide on the usual targets; the model's integers are 32
\* bits wide, so the modulus is scaled to 2^30, far above every size used.
SIZE_MOD == 1073741824
\* kaa_platform_common.h (not part of kaa_logging.c)
KAA_EXTENSION_HEADER_SIZE == 8
KAA_ALIGNMENT == 4
KAA_LOGGING_EXTENSION_TYPE == 4

\* a NULL pointer, where pointers are modelled as indices
NULL == 0

---------------------------------------------------------------------------
(* Inputs *)

\* kaa_log_upload_properties_t instances handed to kaa_logging_init
Properties ==
    << [max_log_storage_volume |-> 13, max_log_block_size |-> 12],
       [max_log_storage_volume |-> 1000, max_log_block_size |-> 100] >>

\* The environments the client runs in:
\*   stored      the bucket id the durable status store holds,
\*   little      the byte order of the host,
\*   properties  the properties the integrator hands to kaa_logging_init,
\*   callbacks   the optional callbacks (upload_succeeded, upload_failed) its
\*               storage instances may have,
\*   sizes       the get_size() values of the entries the application logs,
\*               the k-th set for the k-th accepted record (the last set for
\*               all further ones),
\*   capacities  the bytes left in the platform message writers the transport
\*               hands to the serializer,
\*   collectors  how many collectors the client creates (one per start of the
\*               process),
\*   storages    how many storage instances the integrator hands over,
\*   reinit_same whether the integrator calls kaa_logging_init again with the
\*               storage instance that is bound already.
\* The first two are scaled down (block size 12, volume 13); the third is the
\* documented scenario: volume 1000, block size 100, records of 10, 50 and 60
\* bytes.
Environments ==
    { [stored |-> 0, little |-> TRUE, properties |-> 1,
       callbacks |-> BOOLEAN \X BOOLEAN,
       sizes |-> << {-1, 0, 2, 5} >>,
       capacities |-> {4, 8, 24, 64},
       collectors |-> 1, storages |-> 1, reinit_same |-> FALSE],
      [stored |-> 65535, little |-> FALSE, properties |-> 1,
       callbacks |-> { <<TRUE, TRUE>> },
       sizes |-> << {2, 5} >>,
       capacities |-> {16, 64},
       collectors |-> 2, storages |-> 2, reinit_same |-> FALSE],
      [stored |-> 0, little |-> TRUE, properties |-> 2,
       callbacks |-> { <<TRUE, TRUE>> },
       sizes |-> << {10}, {50}, {60} >>,
       capacities |-> {16, 128},
       collectors |-> 1, storages |-> 1, reinit_same |-> TRUE] }

\* the sizes the application may log once n records were accepted
SizesAt(sizes, n) == sizes[IF n < Len(sizes) THEN n + 1 ELSE Len(sizes)]

\* result codes a server sync may carry (2 is no logging_sync_result_t)
ResultCodes == {0, 1, 2}

\* a bucket id no request has used
UnknownBucketId == 4660

---------------------------------------------------------------------------
(* Helpers on sequences and bytes *)

RECURSIVE SumSeq(_)
SumSeq(s) == IF s = <<>> THEN 0 ELSE Head(s) + SumSeq(Tail(s))

Range(s) == { s[i] : i \in 1..Len(s) }

\* big-endian (network order) bytes of a 16 and a 32 bit value
BE16(v) == << (v \div 256) % 256, v % 256 >>
BE32(v) == << (v \div 16777216) % 256, (v \div 65536) % 256,
              (v \div 256) % 256, v % 256 >>
LE32(v) == << v % 256, (v \div 256) % 256,
              (v \div 65536) % 256, (v \div 16777216) % 256 >>

\* value of big-endian bytes
FromBE16(b) == b[1] * 256 + b[2]
FromBE32(b) == b[1] * 16777216 + b[2] * 65536 + b[3] * 256 + b[4]

\* *((uint16_t *) p) = KAA_HTONS(v): the bytes left in memory
KAA_HTONS_store(v) == BE16(v)
\* *((uint32_t *) p) = KAA_HTONL(v): the bytes left in memory
KAA_HTONL_store(v) == BE32(v)
\* KAA_NTOHS(*((uint16_t *) p)): the value read from two bytes of memory
KAA_NTOHS_load(b) == FromBE16(b)
\* memcpy of a uint32_t object: its bytes in host order
HostBytes32(v) == IF little_endian THEN LE32(v) ELSE BE32(v)

Zeros(n) == [i \in 1..n |-> 0]

\* s with the bytes at (0-based) offset off replaced by b, growing s if needed
Overwrite(s, off, b) ==
    LET n == IF Len(s) > off + Len(b) THEN Len(s) ELSE off + Len(b)
    IN  [i \in 1..n |->
            IF i > off /\ i <= off + Len(b) THEN b[i - off]
            ELSE IF i <= Len(s) THEN s[i] ELSE 0]


---------------------------------------------------------------------------
(* Platform message writer (kaa_platform_utils, not part of kaa_logging.c) *)

\* size rounded up to the next multiple of KAA_ALIGNMENT
kaa_aligned_size_get(size) ==
    size + ((KAA_ALIGNMENT - (size % KAA_ALIGNMENT)) % KAA_ALIGNMENT)

\* a writer over a fresh buffer of capacity bytes: current and end are
\* offsets from begin, buf holds the bytes stored so far
NewWriter(capacity) == [current |-> 0, end |-> capacity, buf |-> <<>>]

\* copies the bytes when they fit, fails otherwise and writes nothing
kaa_platform_message_write(writer, bytes) ==
    IF writer.current + Len(bytes) <= writer.end
    THEN [ok |-> TRUE,
          writer |-> [writer EXCEPT
                        !.buf = Overwrite(writer.buf, writer.current, bytes),
                        !.current = writer.current + Len(bytes)]]
    ELSE [ok |-> FALSE, writer |-> writer]

\* copies the data followed by zero padding up to the aligned size
kaa_platform_message_write_aligned(writer, data, size) ==
    kaa_platform_message_write(writer,
        data \o Zeros(kaa_aligned_size_get(size) - size))

\* 1 byte extension type, 3 bytes options, 4 bytes payload length
kaa_platform_message_extension_header_write(writer, type, options, payload) ==
    kaa_platform_message_write(writer,
        <<type>> \o Tail(BE32(options)) \o BE32(payload))

---------------------------------------------------------------------------
(* Log storage backend (kaa_log_storage_t), a FIFO in-memory storage        *)

\* a storage instance as handed to kaa_logging_init; upload_succeeded and
\* upload_failed are optional callbacks
NewStorage(succeeded, failed) ==
    [has_upload_succeeded |-> succeeded,
     has_upload_failed |-> failed,
     logs |-> <<>>,            \* buffered records, oldest first
     uploading |-> <<>>,       \* in-flight records with their bucket id
     accepted |-> {},          \* serials handed over by add_log_record
     acked |-> {},             \* serials removed by upload_succeeded
     evicted |-> {},           \* serials removed by shrink_to_size
     destroy_calls |-> 0]

add_log_record(storage, record) ==
    [storage EXCEPT !.logs = Append(storage.logs, record),
                    !.accepted = storage.accepted \cup {record.serial}]

\* a NULL record_data pointer; every stored record holds at least one byte
NullData == <<>>

\* the oldest buffered record when its payload fits the budget, moved to the
\* bucket; otherwise the sentinel (record_data = NULL)
get_record(storage, id, budget) ==
    IF storage.logs # <<>> /\ Head(storage.logs).record_size <= budget
    THEN [entry |-> Head(storage.logs),
          storage |-> [storage EXCEPT
                         !.logs = Tail(storage.logs),
                         !.uploading = Append(storage.uploading,
                             [bucket |-> id, record |-> Head(storage.logs)])]]
    ELSE [entry |-> [serial |-> 0, record_size |-> 0, record_data |-> NullData],
          storage |-> storage]

InBucket(storage, id) ==
    SelectSeq(storage.uploading, LAMBDA u : u.bucket = id)

NotInBucket(storage, id) ==
    SelectSeq(storage.uploading, LAMBDA u : u.bucket # id)

Records(us) == [i \in 1..Len(us) |-> us[i].record]

\* the records of the bucket are delivered: the storage drops them
upload_succeeded(storage, id) ==
    [storage EXCEPT
        !.uploading = NotInBucket(storage, id),
        !.acked = storage.acked \cup
                  { u.record.serial : u \in Range(InBucket(storage, id)) }]

\* the records of the bucket are buffered again, ahead of the newer ones
upload_failed(storage, id) ==
    [storage EXCEPT
        !.uploading = NotInBucket(storage, id),
        !.logs = Records(InBucket(storage, id)) \o storage.logs]

get_records_count(storage) == Len(storage.logs) + Len(storage.uploading)

get_total_size(storage) ==
    SumSeq([i \in 1..Len(storage.logs) |-> storage.logs[i].record_size])
    + SumSeq([i \in 1..Len(storage.uploading) |->
                 storage.uploading[i].record.record_size])

\* evicts the oldest buffered records until the retained size is within target
RECURSIVE shrink_to_size(_, _)
shrink_to_size(storage, target) ==
    IF get_total_size(storage) <= target \/ storage.logs = <<>>
    THEN storage
    ELSE shrink_to_size(
            [storage EXCEPT
                !.logs = Tail(storage.logs),
                !.evicted = storage.evicted \cup {Head(storage.logs).serial}],
            target)

\* releases every record the storage holds, and its bookkeeping
destroy(storage) ==
    [storage EXCEPT !.logs = <<>>, !.uploading = <<>>, !.accepted = {},
                    !.acked = {}, !.evicted = {},
                    !.destroy_calls = storage.destroy_calls + 1]


---------------------------------------------------------------------------
(* Collector *)

NoCollector ==
    [allocated |-> FALSE, log_bucket_id |-> 0, log_storage |-> NULL,
     log_properties |-> NULL, log_storage_status |-> NULL,
     is_upload_needed_fn |-> "uninitialized", status |-> NULL]

\* the collector as kaa_log_collector_create leaves it; is_upload_needed_fn
\* is not assigned
CreatedCollector(status) ==
    [allocated |-> TRUE, log_bucket_id |-> 0, log_storage |-> NULL,
     log_properties |-> NULL, log_storage_status |-> NULL,
     is_upload_needed_fn |-> "uninitialized", status |-> status]

NoWriter == NewWriter(0)

\* the storage bound to the collector
Bound == backends[collector.log_storage]

WithBound(storage) == [backends EXCEPT ![collector.log_storage] = storage]

Serials(records) == [i \in 1..Len(records) |-> records[i].serial]

Sizes(records) == [i \in 1..Len(records) |-> records[i].record_size]

\* what an API call did: its return code, the callbacks it invoked in order,
\* the writer (or reader) it leaves, the records it drained, the bucket id,
\* and for the serializer the records that were buffered when it was called
Observation(op, error, input, calls, writer, steps, bucket) ==
    [op |-> op, error |-> error, input |-> input, calls |-> calls,
     writer |-> writer, steps |-> steps, bucket |-> bucket,
     offered |-> IF op = "request_serialize" /\ collector.log_storage # NULL
                 THEN Serials(Bound.logs) ELSE <<>>]

Call(fn, id, arg) == [fn |-> fn, id |-> id, arg |-> arg]


---------------------------------------------------------------------------
(* update_storage: evaluate the decision function and perform its action   *)

\* the value of a kaa_log_upload_decision_t as an observation records it
DecisionCode(decision) ==
    CASE decision = "NOOP" -> 0
      [] decision = "UPLOAD" -> 1
      [] decision = "CLEANUP" -> 2

\* a faulty variant of update_storage that shrinks the storage on UPLOAD as
\* well; C12_DecisionPerformed must reject it
update_storage_ShrinkOnUpload(self, storage, decision, sync) ==
    LET volume == Properties[self.log_properties].max_log_storage_volume
        asked == <<Call("is_upload_needed_fn", 0, DecisionCode(decision))>>
    IN  IF decision = "NOOP"
        THEN [storage |-> storage, calls |-> asked]
        ELSE [storage |-> shrink_to_size(storage, volume),
              calls |-> asked \o <<Call("shrink_to_size", 0, volume)>>]

\* decision is the value is_upload_needed_fn returns, sync whether
\* kaa_channel_manager_get_sync_handler returns a handler; the observed call
\* of the decision function carries the decision returned, the observed
\* handler lookup whether a handler was found
update_storage(self, storage, decision, sync) ==
    LET asked == <<Call("is_upload_needed_fn", 0, DecisionCode(decision))>>
        lookup == <<Call("kaa_channel_manager_get_sync_handler", 0,
                         IF sync THEN 1 ELSE 0)>>
    IN  CASE decision = "CLEANUP" ->
                [storage |-> shrink_to_size(storage,
                        Properties[self.log_properties].max_log_storage_volume),
                 calls |-> asked \o <<Call("shrink_to_size", 0,
                        Properties[self.log_properties].max_log_storage_volume)>>]
          [] decision = "UPLOAD" ->
                [storage |-> storage,
                 calls |-> IF sync
                           THEN asked \o lookup \o <<Call("sync", 0, 1)>>
                           ELSE asked \o lookup]
          [] OTHER ->
                [storage |-> storage, calls |-> asked]


---------------------------------------------------------------------------
(* kaa_profile_request_get_size: the size reserved for the next request   *)

\* error and *expected_size for a collector self whose storage status is
\* the bound storage; uint16_t records_count, size_t arithmetic
kaa_profile_request_get_size(self) ==
    IF self.log_storage_status = NULL \/ self.log_properties = NULL
    THEN [error |-> "KAA_ERR_NOT_INITIALIZED", expected_size |-> 0]
    ELSE LET status == backends[self.log_storage_status]
             records_count == get_records_count(status) % UINT16_MOD
             total_size == get_total_size(status)
             actual_size == (records_count * SIZEOF_UINT32
                             + records_count * KAA_MAX_PADDING_LENGTH
                             + total_size) % SIZE_MOD
             max == Properties[self.log_properties].max_log_block_size
         IN  [error |-> "KAA_ERR_NONE",
              expected_size |-> KAA_EXTENSION_HEADER_SIZE + SIZEOF_UINT32
                  + (IF actual_size < max THEN actual_size ELSE max)]

---------------------------------------------------------------------------
(* kaa_logging_request_serialize *)

\* an ssize_t passed for a size_t parameter
ToSizeT(v) == IF v < 0 THEN v + SIZE_MOD ELSE v

\* a faulty variant of RecordFootprint that charges the unpadded payload;
\* C10_AlignmentAndAccounting must reject it
RecordFootprint_Unpadded(size) == size + SIZEOF_UINT32

\* what one record takes from remaining_size
RecordFootprint(size) == kaa_aligned_size_get(size) + SIZEOF_UINT32

\* the bucket id of the next request: the counter is loaded from the status
\* store while it is 0, then incremented as a uint16_t
NextBucketId(log_bucket_id, stored) ==
    ((IF log_bucket_id = 0 THEN stored ELSE log_bucket_id) + 1) % UINT16_MOD

\* a faulty variant of AbortBatch that never tells the storage;
\* C6_AbortNotifiesBackend must reject it
AbortBatch_Silent(storage, id) == [storage |-> storage, calls |-> <<>>]

\* a failed record write: tell the storage when it has the callback
AbortBatch(storage, id) ==
    IF storage.has_upload_failed
    THEN [storage |-> upload_failed(storage, id),
          calls |-> <<Call("upload_failed", id, 0)>>]
    ELSE [storage |-> storage, calls |-> <<>>]

\* the extraction loop: st holds the storage, the writer, remaining_size,
\* records_count, and the observed steps and calls
RECURSIVE extract_records(_, _)
extract_records(st, id) ==
    LET budget == ToSizeT(st.remaining_size)
        got == get_record(st.storage, id, budget)
        calls == Append(st.calls, Call("get_record", id, budget))
        entry == got.entry
        remaining == st.remaining_size - RecordFootprint(entry.record_size)
        wsize == kaa_platform_message_write(st.writer,
                                            HostBytes32(entry.record_size))
        wdata == kaa_platform_message_write_aligned(wsize.writer,
                        entry.record_data, entry.record_size)
        step == [serial |-> entry.serial, record_size |-> entry.record_size,
                 budget |-> budget, remaining |-> remaining,
                 size_at |-> st.writer.current,
                 data_at |-> wsize.writer.current,
                 end_at |-> wdata.writer.current,
                 written |-> wsize.ok /\ wdata.ok]
        aborted == AbortBatch(got.storage, id)
    IN  IF entry.record_data = NullData
        THEN [st EXCEPT !.calls = calls]
        ELSE IF ~wsize.ok \/ ~wdata.ok
        THEN [ok |-> FALSE, storage |-> aborted.storage,
              writer |-> IF wsize.ok THEN wsize.writer ELSE st.writer,
              remaining_size |-> remaining,
              records_count |-> (st.records_count + 1) % UINT16_MOD,
              steps |-> Append(st.steps, step),
              calls |-> calls \o aborted.calls]
        ELSE extract_records(
                [ok |-> TRUE, storage |-> got.storage, writer |-> wdata.writer,
                 remaining_size |-> remaining,
                 records_count |-> (st.records_count + 1) % UINT16_MOD,
                 steps |-> Append(st.steps, step),
                 calls |-> calls], id)

\* the stores of the bucket id and the reserved records count, which the
\* code does without asking the writer whether they fit
StoreBucketId(writer, id) ==
    [writer EXCEPT
        !.buf = Overwrite(writer.buf, writer.current, KAA_HTONS_store(id)),
        !.current = writer.current + SIZEOF_UINT16 + SIZEOF_UINT16]

\* a faulty variant of BackPatch that stores the records count without
\* KAA_HTONS, low byte first; C9_DrainsOfferedRecords must reject it
BackPatch_CountUnswapped(writer, size_p, count_p, total_size, records_count) ==
    [writer EXCEPT
        !.buf = Overwrite(Overwrite(writer.buf, size_p,
                                    KAA_HTONL_store(total_size)),
                          count_p, << records_count % 256,
                                      (records_count \div 256) % 256 >>)]

\* the back-patched extension length and records count
BackPatch(writer, size_p, count_p, total_size, records_count) ==
    [writer EXCEPT
        !.buf = Overwrite(Overwrite(writer.buf, size_p,
                                    KAA_HTONL_store(total_size)),
                          count_p, KAA_HTONS_store(records_count))]

\* a faulty variant of TotalSize that starts from 8 bytes of fixed fields;
\* C8_BodyLength must reject it
TotalSize_From8(max_log_block_size, remaining_size) ==
    KAA_EXTENSION_HEADER_SIZE + (max_log_block_size - remaining_size)

\* the extension length: sizeof(uint32_t) for bucket id and count, plus what
\* the records took from remaining_size
TotalSize(max_log_block_size, remaining_size) ==
    SIZEOF_UINT32 + (max_log_block_size - remaining_size)

\* id_step: the call got as far as taking a bucket id; overrun: the stores
\* of the bucket id and records count went past the end of the buffer
Result(error, self, storage, writer, steps, calls, bucket, id_step) ==
    [error |-> error, self |-> self, storage |-> storage, writer |-> writer,
     steps |-> steps, calls |-> calls, bucket |-> bucket, id_step |-> id_step,
     overrun |-> id_step /\ writer.end < KAA_EXTENSION_HEADER_SIZE
                                        + SIZEOF_UINT16 + SIZEOF_UINT16]

\* self is initialized, storage is its storage, writer the caller's writer;
\* loaded tells whether kaa_status_get_log_bucket_id succeeds when called
request_serialize(self, storage, writer, loaded) ==
    LET header == kaa_platform_message_extension_header_write(writer,
                      KAA_LOGGING_EXTENSION_TYPE,
                      KAA_LOGGING_RECEIVE_UPDATES_FLAG, 0)
        size_p == writer.current + SIZEOF_UINT32
        id == NextBucketId(self.log_bucket_id, status_log_bucket_id)
        self1 == [self EXCEPT !.log_bucket_id = id]
        w1 == StoreBucketId(header.writer, id)
        count_p == header.writer.current + SIZEOF_UINT16
        max == Properties[self.log_properties].max_log_block_size
        done == extract_records(
                    [ok |-> TRUE, storage |-> storage, writer |-> w1,
                     remaining_size |-> max, records_count |-> 0,
                     steps |-> <<>>, calls |-> <<>>], id)
    IN  IF ~header.ok
        THEN Result("KAA_ERR_WRITE_FAILED", self, storage, writer,
                    <<>>, <<>>, 0, FALSE)
        ELSE IF self.log_bucket_id = 0 /\ ~loaded
        THEN Result("KAA_ERR_BAD_STATE", self, storage, header.writer,
                    <<>>, <<>>, 0, FALSE)
        ELSE IF ~done.ok
        THEN Result("KAA_ERR_WRITE_FAILED", self1, done.storage, done.writer,
                    done.steps, done.calls, id, TRUE)
        ELSE Result("KAA_ERR_NONE", self1, done.storage,
                    BackPatch(done.writer, size_p, count_p,
                              TotalSize(max, done.remaining_size),
                              done.records_count),
                    done.steps, done.calls, id, TRUE)


---------------------------------------------------------------------------
(* kaa_logging_handle_server_sync *)

\* the acknowledgment as it lies in the reader: bucket id, result, padding
SyncResponse(id, result) == BE16(id) \o <<result, 0>>

\* a faulty variant of AckCallback that takes only LOGGING_RESULT_FAILURE
\* for a failure; C20_UnknownResultIsFailure must reject it
AckCallback_OnlyFailureFails(result) ==
    IF result = LOGGING_RESULT_FAILURE
    THEN "upload_failed" ELSE "upload_succeeded"

\* a faulty variant of AckCallback with the two callbacks exchanged;
\* C5_AckCallbacks must reject it
AckCallback_Exchanged(result) ==
    IF result = LOGGING_RESULT_SUCCESS
    THEN "upload_failed" ELSE "upload_succeeded"

\* the callback a result code selects
AckCallback(result) ==
    IF result = LOGGING_RESULT_SUCCESS
    THEN "upload_succeeded" ELSE "upload_failed"

\* the storage after the callback for the result read from the reader, when
\* the storage has that callback
handle_server_sync(storage, reader) ==
    LET id == KAA_NTOHS_load(SubSeq(reader, 1, 2))
        result == reader[3]
    IN  IF AckCallback(result) = "upload_succeeded"
        THEN IF storage.has_upload_succeeded
             THEN [storage |-> upload_succeeded(storage, id),
                   calls |-> <<Call("upload_succeeded", id, 0)>>,
                   id |-> id, result |-> result]
             ELSE [storage |-> storage, calls |-> <<>>,
                   id |-> id, result |-> result]
        ELSE IF storage.has_upload_failed
             THEN [storage |-> upload_failed(storage, id),
                   calls |-> <<Call("upload_failed", id, 0)>>,
                   id |-> id, result |-> result]
             ELSE [storage |-> storage, calls |-> <<>>,
                   id |-> id, result |-> result]

---------------------------------------------------------------------------
(* Initial state and actions *)

Init ==
    /\ env \in Environments
    /\ status_log_bucket_id = env.stored
    /\ little_endian = env.little
    /\ collector = NoCollector
    /\ backends = <<>>
    /\ issued = <<>>
    /\ ncollectors = 0
    /\ nrecords = 0
    /\ sent = <<>>
    /\ delivered = {}
    /\ crashed = FALSE
    /\ last = [op |-> "none", error |-> "KAA_ERR_NONE", input |-> <<>>,
               calls |-> <<>>, writer |-> NoWriter, steps |-> <<>>,
               bucket |-> 0, offered |-> <<>>]

\* kaa_log_collector_create(&collector, status, channel_manager, logger)
kaa_log_collector_create(status) ==
    /\ ~crashed
    /\ ~collector.allocated
    /\ ncollectors < env.collectors
    /\ collector' = CreatedCollector(status)
    /\ ncollectors' = ncollectors + 1
    /\ last' = Observation("create", "KAA_ERR_NONE", <<status>>, <<>>,
                           NoWriter, <<>>, 0)
    /\ UNCHANGED <<status_log_bucket_id, little_endian, env, backends, issued,
                   nrecords, sent, delivered, crashed>>

\* kaa_log_collector_destroy(collector)
kaa_log_collector_destroy ==
    /\ ~crashed
    /\ collector.allocated
    /\ backends' = IF collector.log_storage # NULL
                   THEN WithBound(destroy(Bound)) ELSE backends
    /\ collector' = NoCollector
    /\ last' = Observation("destroy", "KAA_ERR_NONE", <<>>,
                   IF collector.log_storage # NULL
                   THEN <<Call("destroy", collector.log_storage, 0)>>
                   ELSE <<>>,
                   NoWriter, <<>>, 0)
    /\ UNCHANGED <<status_log_bucket_id, little_endian, env, issued,
                   ncollectors, nrecords, sent, delivered, crashed>>

\* kaa_logging_init(collector, storage, properties, status, need_upl): with
\* a NULL argument (nil); or with the storage instance that is bound already
\* (same), which the model lets happen once per instance; or with a storage
\* instance not handed over before, that has the optional callbacks as given.
\* A storage that is used after its destroy callback ran is taken to go on
\* as an empty storage.
kaa_logging_init(nil, same, succeeded, failed, properties) ==
    /\ ~crashed
    /\ collector.allocated
    /\ IF nil
       THEN /\ ~same
            /\ last' = Observation("init", "KAA_ERR_BADPARAM", <<NULL>>,
                           <<>>, NoWriter, <<>>, 0)
            /\ UNCHANGED <<collector, backends>>
       ELSE IF same
       THEN /\ env.reinit_same
            /\ collector.log_storage # NULL
            /\ Bound.destroy_calls = 0
            /\ Bound.has_upload_succeeded = succeeded
            /\ Bound.has_upload_failed = failed
            /\ backends' = WithBound(destroy(Bound))
            /\ collector' = [collector EXCEPT
                               !.log_properties = properties,
                               !.is_upload_needed_fn = "need_upl"]
            /\ last' = Observation("init", "KAA_ERR_NONE",
                           <<collector.log_storage>>,
                           <<Call("destroy", collector.log_storage, 0)>>,
                           NoWriter, <<>>, 0)
       ELSE /\ Len(backends) < env.storages
            /\ LET released == IF collector.log_storage # NULL
                               THEN WithBound(destroy(Bound)) ELSE backends
                   storage == Len(backends) + 1
               IN  /\ backends' = Append(released,
                                         NewStorage(succeeded, failed))
                   /\ collector' = [collector EXCEPT
                                      !.log_storage = storage,
                                      !.log_properties = properties,
                                      !.log_storage_status = storage,
                                      !.is_upload_needed_fn = "need_upl"]
                   /\ last' = Observation("init", "KAA_ERR_NONE",
                                  <<storage>>,
                                  IF collector.log_storage # NULL
                                  THEN <<Call("destroy",
                                              collector.log_storage, 0)>>
                                  ELSE <<>>,
                                  NoWriter, <<>>, 0)
    /\ UNCHANGED <<status_log_bucket_id, little_endian, env, issued,
                   ncollectors, nrecords, sent, delivered, crashed>>

\* the bytes entry->serialize writes for an entry of the given size
EntryData(size) == [i \in 1..size |-> (size + i) % 256]

\* what the decision function and the sync handler lookup can return
Outcomes ==
    { [decision |-> "NOOP", sync |-> FALSE],
      [decision |-> "CLEANUP", sync |-> FALSE],
      [decision |-> "UPLOAD", sync |-> FALSE],
      [decision |-> "UPLOAD", sync |-> TRUE] }

\* a faulty variant of UninitializedError with one code for all operations;
\* C14_UninitializedCollector must reject it
UninitializedError_OneCode(op) == "KAA_ERR_BAD_STATE"

\* what an operation returns on a collector without a storage
UninitializedError(op) ==
    IF op = "handle_server_sync"
    THEN "KAA_ERR_NOT_INITIALIZED" ELSE "KAA_ERR_BAD_STATE"

\* a faulty variant of ValidSize that lets an empty entry pass;
\* C13_InvalidSizeRejected must reject it
ValidSize_NotNegative(size) == size >= 0

\* record.record_size > 0
ValidSize(size) == size > 0

\* kaa_logging_add_record(collector, entry): size is entry->get_size()
kaa_logging_add_record(size) ==
    /\ ~crashed
    /\ collector.allocated
    /\ IF collector.log_storage # NULL
          /\ collector.is_upload_needed_fn # "uninitialized"
          /\ collector.log_storage_status # NULL
       THEN IF ValidSize(size)
            THEN \/ \* KAA_MALLOC or avro_writer_memory fails
                    /\ last' = Observation("add_record", "KAA_ERR_NOMEM",
                                   <<size>>, <<>>, NoWriter, <<>>, 0)
                    /\ UNCHANGED <<backends, nrecords>>
                 \/ /\ nrecords < MaxRecords
                    /\ \E o \in Outcomes :
                        LET record == [serial |-> nrecords + 1,
                                       record_size |-> size,
                                       record_data |-> EntryData(size)]
                            added == add_log_record(Bound, record)
                            updated == update_storage(collector, added,
                                                      o.decision, o.sync)
                        IN  /\ backends' = WithBound(updated.storage)
                            /\ last' = Observation("add_record",
                                   "KAA_ERR_NONE", <<size>>,
                                   <<Call("add_log_record", record.serial,
                                          size)>> \o updated.calls,
                                   NoWriter, <<>>, 0)
                    /\ nrecords' = nrecords + 1
            ELSE /\ last' = Observation("add_record", "KAA_ERR_BADPARAM",
                                <<size>>, <<>>, NoWriter, <<>>, 0)
                 /\ UNCHANGED <<backends, nrecords>>
       ELSE /\ last' = Observation("add_record",
                           UninitializedError("add_record"),
                           <<size>>, <<>>, NoWriter, <<>>, 0)
            /\ UNCHANGED <<backends, nrecords>>
    /\ UNCHANGED <<status_log_bucket_id, little_endian, env, collector,
                   issued, ncollectors, sent, delivered, crashed>>

\* the batch a successful call leaves in the writer
Batch(steps, bucket) ==
    [bucket |-> bucket, serials |-> { steps[i].serial : i \in 1..Len(steps) }]

\* kaa_logging_request_serialize(collector, writer) with a writer that has
\* capacity bytes left. When the unchecked stores of the bucket id and the
\* records count go past the end of the buffer, the process either dies or
\* goes on with the neighbouring memory overwritten.
kaa_logging_request_serialize(capacity) ==
    /\ ~crashed
    /\ collector.allocated
    /\ IF collector.log_storage = NULL \/ collector.log_properties = NULL
       THEN /\ last' = Observation("request_serialize",
                           UninitializedError("request_serialize"),
                           <<capacity>>, <<>>, NewWriter(capacity), <<>>, 0)
            /\ UNCHANGED <<collector, backends, issued, sent, crashed>>
       ELSE \E loaded \in IF collector.log_bucket_id = 0
                           THEN BOOLEAN ELSE {TRUE} :
            LET r == request_serialize(collector, Bound,
                                       NewWriter(capacity), loaded)
            IN  /\ r.id_step => Len(issued) < MaxRequests
                /\ \/ /\ r.overrun
                      /\ crashed' = TRUE
                      /\ last' = Observation("request_serialize", "crash",
                                     <<capacity>>, <<>>,
                                     NewWriter(capacity), <<>>, r.bucket)
                      /\ UNCHANGED <<collector, backends, issued,
                                     sent>>
                   \/ /\ collector' = r.self
                      /\ backends' = WithBound(r.storage)
                      /\ issued' = IF r.id_step
                                   THEN Append(issued,
                                          [collector |-> ncollectors,
                                           id |-> r.bucket])
                                   ELSE issued
                      /\ sent' =
                             IF r.error = "KAA_ERR_NONE"
                             THEN Append(sent, Batch(r.steps, r.bucket))
                             ELSE sent
                      /\ last' = Observation("request_serialize", r.error,
                                     <<capacity>>, r.calls, r.writer,
                                     r.steps, r.bucket)
                      /\ UNCHANGED crashed
    /\ UNCHANGED <<status_log_bucket_id, little_endian, env, ncollectors,
                   nrecords, delivered>>

\* The server answers each batch it was sent once, in the order sent, and
\* names the batch by its bucket id; before the first request, a sync can
\* carry an acknowledgment of a bucket never sent.
ResponseIds ==
    { sent[i].bucket : i \in 1..Len(sent) }
    \cup (IF issued = <<>> THEN {UnknownBucketId} ELSE {})

\* the position in sent of the batch an acknowledgment of id answers
Answered(id) ==
    IF \E i \in 1..Len(sent) : sent[i].bucket = id
    THEN CHOOSE i \in 1..Len(sent) :
            /\ sent[i].bucket = id
            /\ \A j \in 1..(i - 1) : sent[j].bucket # id
    ELSE 0

Without(seq, k) ==
    [i \in 1..(Len(seq) - 1) |-> IF i < k THEN seq[i] ELSE seq[i + 1]]

\* kaa_logging_handle_server_sync(collector, reader, options, length) with a
\* reader positioned at an acknowledgment of bucket id with the given result;
\* the observation's writer field shows the reader after the call
kaa_logging_handle_server_sync(id, result) ==
    /\ ~crashed
    /\ collector.allocated
    /\ LET reader == SyncResponse(id, result)
       IN  IF collector.log_storage = NULL
           THEN /\ last' = Observation("handle_server_sync",
                               UninitializedError("handle_server_sync"),
                               reader, <<>>,
                               [current |-> 0, end |-> Len(reader),
                                buf |-> reader], <<>>, 0)
                /\ UNCHANGED <<backends, sent, delivered>>
           ELSE \E o \in Outcomes :
                LET h == handle_server_sync(Bound, reader)
                    u == update_storage(collector, h.storage,
                                        o.decision, o.sync)
                IN  /\ backends' = WithBound(u.storage)
                    /\ sent' = IF Answered(id) = 0 THEN sent
                                ELSE Without(sent, Answered(id))
                    /\ delivered' =
                           IF result = LOGGING_RESULT_SUCCESS
                              /\ Answered(id) # 0
                           THEN delivered \cup sent[Answered(id)].serials
                           ELSE delivered
                    /\ last' = Observation("handle_server_sync",
                                   "KAA_ERR_NONE", reader,
                                   h.calls \o u.calls,
                                   [current |-> SIZEOF_UINT16 + SIZEOF_UINT16,
                                    end |-> Len(reader), buf |-> reader],
                                   <<>>, h.id)
    /\ UNCHANGED <<status_log_bucket_id, little_endian, env, collector,
                   issued, ncollectors, nrecords, crashed>>

Next ==
    \/ kaa_log_collector_create(1)
    \/ kaa_log_collector_destroy
    \/ \E nil \in BOOLEAN, same \in BOOLEAN, callbacks \in env.callbacks :
            kaa_logging_init(nil, same, callbacks[1], callbacks[2],
                             env.properties)
    \/ \E size \in SizesAt(env.sizes, nrecords) :
            kaa_logging_add_record(size)
    \/ \E capacity \in env.capacities :
            kaa_logging_request_serialize(capacity)
    \/ \E id \in ResponseIds, result \in ResultCodes :
            kaa_logging_handle_server_sync(id, result)

Spec == Init /\ [][Next]_vars

---------------------------------------------------------------------------
(* Vocabulary of the properties *)

\* the most recent call was op and returned error
Returned(op, error) == last.op = op /\ last.error = error

\* the storage instances that were not destroyed
Live == { i \in 1..Len(backends) : backends[i].destroy_calls = 0 }

Buffered(storage) == Range(Serials(storage.logs))

InFlight(storage) == { u.record.serial : u \in Range(storage.uploading) }

\* the records of the batches the server has not answered yet
Pending == UNION { b.serials : b \in Range(sent) }

\* size rounded up to a multiple of 4, as the wire format pads a payload
RoundUp4(size) == ((size + 3) \div 4) * 4

\* the fields of the extension a successful call leaves in the writer
ExtensionLength(writer) == FromBE32(SubSeq(writer.buf, 5, 8))
ExtensionBucketId(writer) == FromBE16(SubSeq(writer.buf, 9, 10))
ExtensionRecordCount(writer) == FromBE16(SubSeq(writer.buf, 11, 12))

\* the callbacks of the given name the most recent call invoked
CallsOf(fn) == SelectSeq(last.calls, LAMBDA c : c.fn = fn)

---------------------------------------------------------------------------
(* C1: no accepted record is lost or duplicated. Every record a live       *)
(* storage accepted is in exactly one of the states buffered, in flight,   *)
(* acknowledged or evicted; it is acknowledged only when the server        *)
(* accepted a batch that held it; and it is not buffered again (to be      *)
(* emitted in a second batch) while a batch that holds it is unanswered or *)
(* was accepted.                                                           *)
C1_NoLossNoDuplication ==
    \A i \in Live :
        LET storage == backends[i]
        IN  /\ Cardinality(Buffered(storage) \cup InFlight(storage))
                 = Len(storage.logs) + Len(storage.uploading)
            /\ storage.accepted = Buffered(storage) \cup InFlight(storage)
                                  \cup storage.acked \cup storage.evicted
            /\ (Buffered(storage) \cup InFlight(storage))
                 \cap (storage.acked \cup storage.evicted) = {}
            /\ storage.acked \cap storage.evicted = {}
            /\ storage.acked \subseteq delivered
            /\ Buffered(storage) \cap (Pending \cup delivered) = {}

---------------------------------------------------------------------------
(* C2: a successful build_request never emits a batch whose back-patched   *)
(* body length exceeds max_log_block_size.                                 *)
C2_BodyWithinBlockSize ==
    Returned("request_serialize", "KAA_ERR_NONE")
        => ExtensionLength(last.writer)
             <= Properties[collector.log_properties].max_log_block_size

---------------------------------------------------------------------------
(* C3: the bucket ids one collector takes in fewer than 65536 requests are *)
(* pairwise distinct, whatever the durable store holds.                    *)
C3_BucketIdsDistinct ==
    \A i, j \in 1..Len(issued) :
        (i # j /\ issued[i].collector = issued[j].collector
           /\ Len(issued) < UINT16_MOD)
            => issued[i].id # issued[j].id

---------------------------------------------------------------------------
(* C4: after a restart (the collector destroyed, a new one created over    *)
(* the same durable store) the bucket ids differ from every bucket id      *)
(* taken before the restart.                                               *)
C4_BucketIdSurvivesRestart ==
    \A i, j \in 1..Len(issued) :
        (issued[i].collector # issued[j].collector
           /\ Len(issued) < UINT16_MOD)
            => issued[i].id # issued[j].id

---------------------------------------------------------------------------
(* C5: ack correctness. For the bucket id B and the result read from the   *)
(* response, handle_server_sync calls upload_succeeded(B) exactly once and *)
(* upload_failed not at all on Success, and upload_failed(B) exactly once  *)
(* and upload_succeeded not at all on Failure, provided the storage has    *)
(* the callback in question; a storage without it gets no ack callback.    *)
C5_AckCallbacks ==
    Returned("handle_server_sync", "KAA_ERR_NONE") =>
        LET B == FromBE16(SubSeq(last.input, 1, 2))
            result == last.input[3]
        IN  /\ result = LOGGING_RESULT_SUCCESS =>
                /\ CallsOf("upload_failed") = <<>>
                /\ CallsOf("upload_succeeded") =
                       IF Bound.has_upload_succeeded
                       THEN <<Call("upload_succeeded", B, 0)>> ELSE <<>>
            /\ result = LOGGING_RESULT_FAILURE =>
                /\ CallsOf("upload_succeeded") = <<>>
                /\ CallsOf("upload_failed") =
                       IF Bound.has_upload_failed
                       THEN <<Call("upload_failed", B, 0)>> ELSE <<>>

\* a Success response for a batch with a record reached the callback
C5_Witness ==
    /\ Returned("handle_server_sync", "KAA_ERR_NONE")
    /\ last.input[3] = LOGGING_RESULT_SUCCESS
    /\ CallsOf("upload_succeeded")
         = <<Call("upload_succeeded", FromBE16(SubSeq(last.input, 1, 2)), 0)>>
    /\ Bound.acked # {}

\* C5 as stated: the callback is called whatever callbacks the storage has
C5_AckCallbacksAlways ==
    Returned("handle_server_sync", "KAA_ERR_NONE") =>
        LET B == FromBE16(SubSeq(last.input, 1, 2))
            result == last.input[3]
        IN  /\ result = LOGGING_RESULT_SUCCESS =>
                /\ CallsOf("upload_failed") = <<>>
                /\ CallsOf("upload_succeeded")
                     = <<Call("upload_succeeded", B, 0)>>
            /\ result = LOGGING_RESULT_FAILURE =>
                /\ CallsOf("upload_succeeded") = <<>>
                /\ CallsOf("upload_failed") = <<Call("upload_failed", B, 0)>>

---------------------------------------------------------------------------
(* C6: a failed write. When the extension header does not fit, the call    *)
(* returns WriteFailed before it takes a bucket id and calls no callback.  *)
(* When a record size field or a record payload does not fit, the call     *)
(* returns WriteFailed and, if the storage has upload_failed, has called   *)
(* upload_failed exactly once, with the bucket id it stored in the         *)
(* message, and no record stays in flight under that id.                   *)
C6_AbortNotifiesBackend ==
    Returned("request_serialize", "KAA_ERR_WRITE_FAILED") =>
        IF last.input[1] < KAA_EXTENSION_HEADER_SIZE
        THEN last.calls = <<>> /\ last.steps = <<>> /\ last.writer.buf = <<>>
        ELSE /\ last.steps # <<>>
             /\ ~last.steps[Len(last.steps)].written
             /\ Bound.has_upload_failed =>
                  /\ CallsOf("upload_failed") =
                       <<Call("upload_failed",
                              ExtensionBucketId(last.writer), 0)>>
                  /\ InBucket(Bound, ExtensionBucketId(last.writer)) = <<>>
             /\ ~Bound.has_upload_failed => CallsOf("upload_failed") = <<>>

\* a record was written and the next one did not fit; the storage was told
C6_Witness ==
    /\ Returned("request_serialize", "KAA_ERR_WRITE_FAILED")
    /\ Len(last.steps) = 2
    /\ last.steps[1].written
    /\ CallsOf("upload_failed") = <<Call("upload_failed", last.bucket, 0)>>
    /\ Buffered(Bound) = {last.steps[1].serial, last.steps[2].serial}

\* C6 as stated: every WriteFailed return, the header's included, comes with
\* one upload_failed call
C6_EveryWriteFailureNotifies ==
    (Returned("request_serialize", "KAA_ERR_WRITE_FAILED")
       /\ Bound.has_upload_failed)
        => Len(CallsOf("upload_failed")) = 1

---------------------------------------------------------------------------
(* C7: after a WriteFailed return the writer is as it was before the call: *)
(* same write position, nothing of the extension left in the message.      *)
C7_WriterRestored ==
    Returned("request_serialize", "KAA_ERR_WRITE_FAILED")
        => last.writer = NewWriter(last.input[1])

---------------------------------------------------------------------------
(* C8: the back-patched extension length of a successful call is 4 (the    *)
(* bucket id and records count fields) plus, for every emitted record, 4   *)
(* plus the record size rounded up to a multiple of 4: 4 for an empty      *)
(* batch, 76 for emitted records of sizes 10 and 50.                       *)
C8_BodyLength ==
    Returned("request_serialize", "KAA_ERR_NONE") =>
        /\ ExtensionLength(last.writer) =
             4 + SumSeq([i \in 1..Len(last.steps) |->
                            4 + RoundUp4(last.steps[i].record_size)])
        /\ last.steps = <<>> => ExtensionLength(last.writer) = 4
        /\ Sizes(last.steps) = <<10, 50>> => ExtensionLength(last.writer) = 76

\* the batch with the records of sizes 10 and 50 was emitted
C8_Witness ==
    /\ Returned("request_serialize", "KAA_ERR_NONE")
    /\ Sizes(last.steps) = <<10, 50>>
    /\ ExtensionLength(last.writer) = 76

\* C8 as stated: 8 plus the records
C8_BodyLengthFrom8 ==
    Returned("request_serialize", "KAA_ERR_NONE") =>
        ExtensionLength(last.writer) =
             8 + SumSeq([i \in 1..Len(last.steps) |->
                            4 + RoundUp4(last.steps[i].record_size)])

---------------------------------------------------------------------------
(* C9: a successful call emits the records the storage hands out within    *)
(* the remaining budget, oldest first, until the first sentinel: the       *)
(* records count field equals the number of records written, the emitted   *)
(* records are the first of those buffered at the call, and the others are *)
(* still buffered, in order, and not in flight. With block size 100 and    *)
(* buffered sizes 10, 50, 60 the records 10 and 50 are emitted with count  *)
(* 2 and the 60 byte record stays buffered.                                *)
C9_DrainsOfferedRecords ==
    Returned("request_serialize", "KAA_ERR_NONE") =>
        LET n == Len(last.steps)
        IN  /\ ExtensionRecordCount(last.writer) = n
            /\ \A i \in 1..n : /\ last.steps[i].written
                               /\ last.steps[i].record_size
                                    <= last.steps[i].budget
            /\ n <= Len(last.offered)
            /\ Serials(last.steps) = SubSeq(last.offered, 1, n)
            /\ Serials(Bound.logs) = SubSeq(last.offered, n + 1,
                                            Len(last.offered))
            /\ Buffered(Bound) \cap InFlight(Bound) = {}
            /\ Len(last.calls) = n + 1
            /\ \A i \in 1..(n + 1) : last.calls[i].fn = "get_record"
            /\ (Properties[collector.log_properties].max_log_block_size = 100
                  /\ last.offered = <<1, 2, 3>>
                  /\ last.input[1] >= 100 + 12)
                => /\ Sizes(last.steps) = <<10, 50>>
                   /\ ExtensionRecordCount(last.writer) = 2
                   /\ Sizes(Bound.logs) = <<60>>

\* block size 100, records of sizes 10, 50, 60 buffered: two emitted
C9_Witness ==
    /\ Returned("request_serialize", "KAA_ERR_NONE")
    /\ Properties[collector.log_properties].max_log_block_size = 100
    /\ last.offered = <<1, 2, 3>>
    /\ Sizes(last.steps) = <<10, 50>>
    /\ ExtensionRecordCount(last.writer) = 2
    /\ Sizes(Bound.logs) = <<60>>

---------------------------------------------------------------------------
(* C10: alignment and accounting. For every record written, the bytes      *)
(* after its 4 byte size field number the record size rounded up to a      *)
(* multiple of 4, and what the record takes from the remaining budget is   *)
(* the number of bytes written for it; after a successful call the budget  *)
(* consumed equals the bytes written for records.                          *)
C10_AlignmentAndAccounting ==
    last.op = "request_serialize" =>
        LET max == Properties[collector.log_properties].max_log_block_size
            before(i) == IF i = 1 THEN max ELSE last.steps[i - 1].remaining
        IN  /\ \A i \in 1..Len(last.steps) :
                  last.steps[i].written =>
                    /\ last.steps[i].data_at - last.steps[i].size_at = 4
                    /\ last.steps[i].end_at - last.steps[i].data_at
                         = RoundUp4(last.steps[i].record_size)
                    /\ before(i) - last.steps[i].remaining
                         = last.steps[i].end_at - last.steps[i].size_at
            /\ (last.error = "KAA_ERR_NONE" /\ last.steps # <<>>) =>
                  max - last.steps[Len(last.steps)].remaining
                    = last.writer.current - (KAA_EXTENSION_HEADER_SIZE + 4)

\* a record whose size is no multiple of 4 was emitted with its padding
C10_Witness ==
    /\ Returned("request_serialize", "KAA_ERR_NONE")
    /\ \E i \in 1..Len(last.steps) :
          /\ last.steps[i].record_size % 4 # 0
          /\ last.steps[i].end_at - last.steps[i].data_at
               > last.steps[i].record_size

---------------------------------------------------------------------------
(* C11: round trip. Re-parsing the extension a successful call emitted,    *)
(* by the wire format (big-endian 4 byte size field, then the payload      *)
(* padded to 4 bytes), yields the sizes and the payload bytes of the       *)
(* records the storage handed out, in that order.                          *)

\* the records a receiver reads from buf: n records from (0-based) offset
\* off; a size field or payload that runs past the end of buf ends the parse
\* with a record without payload
RECURSIVE ParseRecords(_, _, _)
ParseRecords(buf, off, n) ==
    IF n = 0 THEN <<>>
    ELSE IF off + 4 > Len(buf)
    THEN << [record_size |-> -1, record_data |-> <<>>] >>
    ELSE LET size == FromBE32(SubSeq(buf, off + 1, off + 4))
         IN  IF off + 4 + size > Len(buf)
             THEN << [record_size |-> size, record_data |-> <<>>] >>
             ELSE << [record_size |-> size,
                      record_data |-> SubSeq(buf, off + 5, off + 4 + size)] >>
                  \o ParseRecords(buf, off + 4 + RoundUp4(size), n - 1)

\* the record the storage holds in flight with the given serial
InFlightRecord(serial) ==
    (CHOOSE u \in Range(Bound.uploading) : u.record.serial = serial).record

C11_RoundTrip ==
    Returned("request_serialize", "KAA_ERR_NONE") =>
        ParseRecords(last.writer.buf, KAA_EXTENSION_HEADER_SIZE + 4,
                     ExtensionRecordCount(last.writer))
          = [i \in 1..Len(last.steps) |->
                [record_size |-> last.steps[i].record_size,
                 record_data |->
                     InFlightRecord(last.steps[i].serial).record_data]]

---------------------------------------------------------------------------
(* C12: after a successful add_record and after a handle_server_sync on an *)
(* initialized collector the decision function is evaluated exactly once,  *)
(* after the storage callback (add_log_record, the ack callback), and the  *)
(* action it returned is performed and no other: CLEANUP one               *)
(* shrink_to_size(max_log_storage_volume) and no sync; UPLOAD one sync     *)
(* when a handler is registered and nothing when none is, and no shrink;   *)
(* NOOP neither. The call returns KAA_ERR_NONE in every case.              *)

\* the callbacks after the first evaluation of the decision function
AfterDecision(calls) ==
    LET k == CHOOSE i \in 1..Len(calls) :
                /\ calls[i].fn = "is_upload_needed_fn"
                /\ \A j \in 1..(i - 1) : calls[j].fn # "is_upload_needed_fn"
    IN  SubSeq(calls, k + 1, Len(calls))

\* the callbacks before the first evaluation of the decision function
BeforeDecision(calls) ==
    SubSeq(calls, 1, Len(calls) - Len(AfterDecision(calls)) - 1)

\* the storage operations and sync triggers among the given callbacks
Actions(calls) ==
    SelectSeq(calls, LAMBDA c :
                 c.fn # "kaa_channel_manager_get_sync_handler")

C12_DecisionPerformed ==
    (Returned("add_record", "KAA_ERR_NONE")
       \/ Returned("handle_server_sync", "KAA_ERR_NONE")) =>
        LET asked == CallsOf("is_upload_needed_fn")
            volume == Properties[collector.log_properties]
                          .max_log_storage_volume
            before == BeforeDecision(last.calls)
            after == AfterDecision(last.calls)
            handler == \E i \in 1..Len(after) :
                          /\ after[i].fn
                               = "kaa_channel_manager_get_sync_handler"
                          /\ after[i].arg = 1
        IN  /\ Len(asked) = 1
            /\ IF last.op = "add_record"
               THEN /\ Len(before) = 1
                    /\ before[1].fn = "add_log_record"
               ELSE /\ Len(before) <= 1
                    /\ \A i \in 1..Len(before) :
                          before[i].fn \in {"upload_succeeded",
                                            "upload_failed"}
            /\ asked[1].arg = DecisionCode("CLEANUP") =>
                  Actions(after) = <<Call("shrink_to_size", 0, volume)>>
            /\ asked[1].arg = DecisionCode("UPLOAD") =>
                  Actions(after) = IF handler THEN <<Call("sync", 0, 1)>>
                                   ELSE <<>>
            /\ asked[1].arg = DecisionCode("NOOP") => after = <<>>

\* a Failure acknowledgment reached the storage and was followed by an
\* upload with a registered handler, on a storage a cleanup had shrunk
C12_Witness ==
    /\ Returned("handle_server_sync", "KAA_ERR_NONE")
    /\ CallsOf("upload_failed") # <<>>
    /\ CallsOf("sync") = <<Call("sync", 0, 1)>>
    /\ Bound.evicted # {}

---------------------------------------------------------------------------
(* C13: on an initialized collector, add_record with an entry whose        *)
(* get_size() is zero or negative returns KAA_ERR_BADPARAM and leaves      *)
(* everything as it was: no add_log_record, no evaluation of the decision  *)
(* function (so no shrink and no sync), storage and collector unchanged.   *)

\* the collector was handed a storage, its status and a decision function
Initialized ==
    /\ collector.allocated
    /\ collector.log_storage # NULL
    /\ collector.log_storage_status # NULL
    /\ collector.is_upload_needed_fn # "uninitialized"

InvalidSizeRejected ==
    (Initialized /\ last'.op = "add_record" /\ last'.input[1] <= 0) =>
        /\ last'.error = "KAA_ERR_BADPARAM"
        /\ last'.calls = <<>>
        /\ backends' = backends
        /\ collector' = collector

C13_InvalidSizeRejected == [][InvalidSizeRejected]_vars

\* an entry of size 0 was refused by a collector whose storage holds a record
C13_Witness ==
    /\ Returned("add_record", "KAA_ERR_BADPARAM")
    /\ last.input[1] = 0
    /\ Initialized
    /\ Bound.logs # <<>>

\* C13 as stated: whatever the state of the collector
C13_InvalidSizeAlwaysBadParam ==
    (last.op = "add_record" /\ last.input[1] <= 0) =>
        /\ last.error = "KAA_ERR_BADPARAM"
        /\ last.calls = <<>>

---------------------------------------------------------------------------
(* C14: on a collector that was created but not initialized, add_record    *)
(* and request_serialize return KAA_ERR_BAD_STATE and handle_server_sync   *)
(* returns KAA_ERR_NOT_INITIALIZED, and the failed call changes nothing:   *)
(* no callback is invoked, no bucket id is taken, the writer is not        *)
(* written to and the reader is not advanced.                              *)
UninitializedCallFails ==
    (collector.allocated /\ collector.log_storage = NULL
       /\ last'.op \in {"add_record", "request_serialize",
                        "handle_server_sync"}) =>
        /\ last'.error = IF last'.op = "handle_server_sync"
                         THEN "KAA_ERR_NOT_INITIALIZED"
                         ELSE "KAA_ERR_BAD_STATE"
        /\ last'.calls = <<>>
        /\ collector' = collector
        /\ backends' = backends
        /\ issued' = issued
        /\ sent' = sent
        /\ last'.op = "request_serialize" =>
              last'.writer = NewWriter(last'.input[1])
        /\ last'.op = "handle_server_sync" =>
              /\ last'.writer.current = 0
              /\ last'.writer.buf = last'.input

C14_UninitializedCollector == [][UninitializedCallFails]_vars

\* an acknowledgment was refused by a collector without a storage
C14_Witness ==
    /\ Returned("handle_server_sync", "KAA_ERR_NOT_INITIALIZED")
    /\ collector.allocated
    /\ collector.log_storage = NULL
    /\ collector.log_bucket_id = 0
    /\ last.writer.current = 0

---------------------------------------------------------------------------
(* C15: the size kaa_profile_request_get_size computes immediately before  *)
(* a request is an upper bound of the bytes that request then writes to    *)
(* the writer (extension header, bucket id, records count, size fields and *)
(* padded payloads).                                                       *)
EstimateCoversRequest ==
    (collector.allocated /\ collector.log_storage # NULL
       /\ last'.op = "request_serialize" /\ last'.error = "KAA_ERR_NONE") =>
        /\ kaa_profile_request_get_size(collector).error = "KAA_ERR_NONE"
        /\ kaa_profile_request_get_size(collector).expected_size
             >= last'.writer.current

C15_EstimateIsUpperBound == [][EstimateCoversRequest]_vars

---------------------------------------------------------------------------
(* C16: retry after failure. Once the records of bucket B were reported    *)
(* failed to the storage (by a Failure acknowledgment of B, or by a        *)
(* request aborted with KAA_ERR_WRITE_FAILED), none of them is in flight   *)
(* under B any more, and the next successful request takes a bucket id     *)
(* different from B and emits the records that are first in the buffer;    *)
(* nothing is handed to the transport except by a request.                 *)

\* the most recent call reported a bucket failed to the storage
FailureReported == CallsOf("upload_failed") # <<>>

FailedBucket == CallsOf("upload_failed")[1].id

RetryUnderNewId ==
    /\ (FailureReported /\ collector.allocated
          /\ collector.log_storage # NULL) =>
            /\ InBucket(Bound, FailedBucket) = <<>>
            /\ (last'.op = "request_serialize"
                  /\ last'.error = "KAA_ERR_NONE") =>
                    /\ last'.bucket # FailedBucket
                    /\ Serials(last'.steps)
                         = SubSeq(Serials(Bound.logs), 1, Len(last'.steps))
    /\ sent' # sent =>
          last'.op \in {"request_serialize", "handle_server_sync"}
    /\ Len(sent') > Len(sent) => last'.op = "request_serialize"

C16_RetryAfterFailure == [][RetryUnderNewId]_vars

---------------------------------------------------------------------------
(* C17: acknowledgment isolation. With add_record and request_serialize    *)
(* calls between the request that sent bucket B and the acknowledgment of  *)
(* B, the acknowledgment touches the records of that batch only: a record  *)
(* in flight that is not of the batch stays in flight, a buffered record   *)
(* that is not of the batch stays buffered unless the cleanup that follows *)
(* evicts it, and no record outside the batch becomes acknowledged.        *)
AckIsolated ==
    (last'.op = "handle_server_sync" /\ last'.error = "KAA_ERR_NONE"
       /\ Answered(last'.bucket) # 0) =>
        LET batch == sent[Answered(last'.bucket)].serials
            after == backends'[collector.log_storage]
        IN  /\ (InFlight(Bound) \ batch) \subseteq InFlight(after)
            /\ (Buffered(Bound) \ batch)
                  \subseteq (Buffered(after) \cup after.evicted)
            /\ Buffered(after) \subseteq (Buffered(Bound) \cup batch)
            /\ after.acked \subseteq (Bound.acked \cup batch)

C17_AckIsolation == [][AckIsolated]_vars

---------------------------------------------------------------------------
(* C18: backend lifetime. The destroy callback of a storage is invoked at  *)
(* most once, and exactly once by the time the collector is destroyed; no  *)
(* storage operation (add_log_record, get_record, shrink_to_size,          *)
(* upload_succeeded, upload_failed) is invoked on a storage after its      *)
(* destroy callback was invoked.                                           *)
StorageOperations ==
    {"add_log_record", "get_record", "shrink_to_size",
     "upload_succeeded", "upload_failed"}

BackendLifetime ==
    /\ \A i \in 1..Len(backends') : backends'[i].destroy_calls <= 1
    /\ ~collector'.allocated =>
          \A i \in 1..Len(backends') : backends'[i].destroy_calls = 1
    /\ (\E k \in 1..Len(last'.calls) :
            last'.calls[k].fn \in StorageOperations) =>
          Bound.destroy_calls = 0

C18_BackendLifetime == [][BackendLifetime]_vars

---------------------------------------------------------------------------
(* C19: the remaining budget stays in range. In one request the budget     *)
(* handed to each get_record call is max_log_block_size minus the sum of   *)
(* (4 + aligned size) of the records emitted before it in that request, it *)
(* is smaller after each emitted record, and it is never negative (never   *)
(* a wrapped-around unsigned value), for a storage that only hands out     *)
(* records whose payload size is at most the budget.                       *)
C19_BudgetInRange ==
    (last.op = "request_serialize" /\ CallsOf("get_record") # <<>>) =>
        LET asked == CallsOf("get_record")
            max == Properties[collector.log_properties].max_log_block_size
            taken(k) == SumSeq([i \in 1..(k - 1) |->
                                  4 + RoundUp4(last.steps[i].record_size)])
        IN  \A k \in 1..Len(asked) :
                /\ max - taken(k) >= 0
                /\ asked[k].arg = max - taken(k)
                /\ k > 1 => asked[k].arg < asked[k - 1].arg

---------------------------------------------------------------------------
(* C20: a result code that is neither Success nor Failure is handled as a  *)
(* failure: handle_server_sync calls upload_failed(id) when the storage    *)
(* has it, never upload_succeeded, evaluates the decision function once    *)
(* and returns KAA_ERR_NONE; no record becomes acknowledged by it, and     *)
(* every record the storage held is still held or was evicted by the       *)
(* cleanup that followed.                                                  *)
CallsIn(calls, fn) == SelectSeq(calls, LAMBDA c : c.fn = fn)

UnknownResultHandledAsFailure ==
    (collector.allocated /\ collector.log_storage # NULL
       /\ last'.op = "handle_server_sync"
       /\ last'.input[3] \notin {LOGGING_RESULT_SUCCESS,
                                 LOGGING_RESULT_FAILURE}) =>
        LET id == FromBE16(SubSeq(last'.input, 1, 2))
            after == backends'[collector.log_storage]
        IN  /\ last'.error = "KAA_ERR_NONE"
            /\ CallsIn(last'.calls, "upload_succeeded") = <<>>
            /\ CallsIn(last'.calls, "upload_failed") =
                   IF Bound.has_upload_failed
                   THEN <<Call("upload_failed", id, 0)>> ELSE <<>>
            /\ Len(CallsIn(last'.calls, "is_upload_needed_fn")) = 1
            /\ after.acked = Bound.acked
            /\ Buffered(after) \cup InFlight(after) \cup after.evicted
                 = Buffered(Bound) \cup InFlight(Bound) \cup Bound.evicted

C20_UnknownResultIsFailure == [][UnknownResultHandledAsFailure]_vars

\* an acknowledgment of a sent batch with result code 2 reached
\* upload_failed, and the storage holds its records in the buffer
C20_Witness ==
    /\ Returned("handle_server_sync", "KAA_ERR_NONE")
    /\ last.input[3] = 2
    /\ issued # <<>>
    /\ CallsOf("upload_failed")
         = <<Call("upload_failed", FromBE16(SubSeq(last.input, 1, 2)), 0)>>
    /\ Buffered(Bound) # {}
    /\ InFlight(Bound) = {}

=============================================================================
